---- MODULE Spec2Model ----
(***************************************************************************)
(* Tic-tac-toe (src/script.js): the board module, the minimax bot with     *)
(* alpha-beta cut-offs, the game core (makeMove / reset) and the UI        *)
(* handlers (setPlayer, setBot, restartGame, handleResult).                *)
(*                                                                         *)
(* JavaScript arrays are modelled as functions over 0..8 (the board) and   *)
(* as sequences (possibleMoves; JS position k is TLA+ position k + 1).     *)
(* A JS array is an object: two names may denote the same array.  The      *)
(* search therefore returns, next to its value, the final contents of the  *)
(* arrays it was handed, and createDataObject says whether the arrays it   *)
(* returns are fresh objects or the caller's own.                          *)
(***************************************************************************)
EXTENDS Integers, Sequences, FiniteSets, TLC

VARIABLES
    boardArray,     \* board: the 9 cells of the live board (line 27)
    listeners,      \* board: squares[i] has emitSquareClick as click listener
    player1Turn,    \* gameCore: let player1Turn (line 196)
    useBot,         \* gameCore: let useBot (line 197); undefined is falsy
    startNope,      \* gameUI: startButtons carries class "nope" (hidden)
    restartNope,    \* gameUI: restartButton carries class "nope"
    boardNope,      \* gameUI: boardDiv carries class "nope"
    resultDiv,      \* gameUI: resultDiv.textContent
    handled,        \* history: arguments of gameUI.handleResult since the last restart
    fills,          \* history: fillSquare calls of the last click (cell, mark, was it empty)
    search,         \* history: the last computeOptimalMove call (board before / after, move)
    threw,          \* history: an error escaped the last click handler
    restarted,      \* history: restartGame has run
    eMap,           \* events: event name -> list of subscribed callbacks (line 2)
    lastOff,        \* history: the last events.off call (name, callback, list before / after)
    lastEmit        \* history: the last events.emit call and the callbacks it ran

eventVars == <<eMap, lastOff, lastEmit>>

vars == <<boardArray, listeners, player1Turn, useBot, startNope, restartNope,
          boardNope, resultDiv, handled, fills, search, threw, restarted,
          eMap, lastOff, lastEmit>>

----------------------------------------------------------------------------
(* Values *)

Cells == 0..8

\* the result of a function that falls off its end, and of a missing value
Undefined == "undefined"

\* the numbers Infinity and -Infinity are only ever compared with -1, 0, 1
Infinity == 2

Max(a, b) == IF a >= b THEN a ELSE b
Min(a, b) == IF a <= b THEN a ELSE b

player1 == [marker |-> "X", name |-> "Player X"]
player2 == [marker |-> "O", name |-> "Player O"]

\* bot.setMarkers(player1.marker, player2.marker)
opponentMarker == player1.marker
botMarker == player2.marker

EmptyBoard == [i \in Cells |-> ""]

----------------------------------------------------------------------------
(* board *)

winningPosSets_noAntiDiagonal ==
    << <<0, 1, 2>>, <<3, 4, 5>>, <<6, 7, 8>>,
       <<0, 3, 6>>, <<1, 4, 7>>, <<2, 5, 8>>,
       <<0, 4, 8>> >>

winningPosSets ==
    << <<0, 1, 2>>, <<3, 4, 5>>, <<6, 7, 8>>,
       <<0, 3, 6>>, <<1, 4, 7>>, <<2, 5, 8>>,
       <<0, 4, 8>>, <<2, 4, 6>> >>

\* the first winning line in winningPosSets decides; "tie" on a full board
getResult(arr) ==
    LET won == {k \in 1..Len(winningPosSets) :
                    LET posSet == winningPosSets[k]
                    IN  /\ arr[posSet[1]] # ""
                        /\ \A j \in 1..Len(posSet) : arr[posSet[j]] = arr[posSet[1]]}
    IN  IF won # {}
        THEN arr[winningPosSets[CHOOSE k \in won : \A m \in won : k <= m][1]]
        ELSE IF \A i \in Cells : arr[i] # "" THEN "tie" ELSE Undefined

getAvailableIndices_skipsZero(arr) ==
    SelectSeq(<<1, 2, 3, 4, 5, 6, 7, 8>>, LAMBDA i : arr[i] = "")

\* boardArray.map((e, i) => e === "" ? i : -1).filter(e => e > -1)
getAvailableIndices(arr) ==
    SelectSeq(<<0, 1, 2, 3, 4, 5, 6, 7, 8>>, LAMBDA i : arr[i] = "")

unbindAll_keep(ls) == ls

unbindAll(ls) == [i \in Cells |-> FALSE]

unbindSquare_keep(ls, index) == ls

unbindSquare(ls, index) == [ls EXCEPT ![index] = FALSE]

----------------------------------------------------------------------------
(* bot *)

\* Array.prototype.indexOf as a JS position, -1 when absent
IndexOf(seq, x) ==
    IF \E k \in 1..Len(seq) : seq[k] = x
    THEN (CHOOSE k \in 1..Len(seq) : seq[k] = x /\ \A m \in 1..(k - 1) : seq[m] # x) - 1
    ELSE -1

Splice1_two(seq, start) ==
    LET from == IF start < 0 THEN Max(Len(seq) + start, 0) ELSE Min(start, Len(seq))
    IN  IF from >= Len(seq) THEN seq
        ELSE SubSeq(seq, 1, from) \o SubSeq(seq, from + 3, Len(seq))

\* seq.splice(start, 1): a negative start counts from the end
Splice1(seq, start) ==
    LET from == IF start < 0 THEN Max(Len(seq) + start, 0) ELSE Min(start, Len(seq))
    IN  IF from >= Len(seq) THEN seq
        ELSE SubSeq(seq, 1, from) \o SubSeq(seq, from + 2, Len(seq))

\* writes into the two arrays it is handed; the record is their contents afterwards
simulateMove(move, marker, bArr, possibleMoves) ==
    [boardArray    |-> [bArr EXCEPT ![move] = marker],
     possibleMoves |-> Splice1(possibleMoves, IndexOf(possibleMoves, move))]

getLeafValue_swapped(gameResult) ==
    IF gameResult = botMarker THEN 1
    ELSE IF gameResult = opponentMarker THEN -1
    ELSE 0

getLeafValue(gameResult) ==
    IF gameResult = botMarker THEN -1
    ELSE IF gameResult = opponentMarker THEN 1
    ELSE 0

\* without the slice() calls: the caller's own arrays are handed on
createDataObject_shared(bArr, possibleMoves) ==
    [boardArray |-> bArr, possibleMoves |-> possibleMoves, fresh |-> FALSE]

\* slice() makes new arrays: writes through the result do not reach the arguments
createDataObject(bArr, possibleMoves) ==
    [boardArray |-> bArr, possibleMoves |-> possibleMoves, fresh |-> TRUE]

cutOff_inverted(alpha, beta) == alpha <= beta

\* if (beta <= alpha) break
cutOff(alpha, beta) == beta <= alpha

\* history: one minimax call as its caller sees it.  parentBoard, parentMoves:
\* the caller's arrays when it makes the call and (After) when the call has
\* returned; nodeBoard, nodeMoves: the callee's arrays after its simulateMove
Call(bArr, possibleMoves, move, r, b2, p2) ==
    [parentBoard |-> bArr, parentMoves |-> possibleMoves, move |-> move,
     marker |-> r.marker, nodeBoard |-> r.nodeBoard, nodeMoves |-> r.nodeMoves,
     value |-> r.value, parentBoardAfter |-> b2, parentMovesAfter |-> p2]

RECURSIVE minimax(_, _, _, _, _)
RECURSIVE maxLoop(_, _, _)
RECURSIVE minLoop(_, _, _)

\* for (move of possibleMoves) of the maximizing branch: the iterations at JS
\* positions lo .. hi - 1, in order, on the loop's variables st.  One iteration is
\* the loop body, or nothing once the loop has ended; several are those of the
\* first half of the range, then those of the second half.
\* calls, depth (history): the calls made so far, in order, and their nesting depth
maxLoop(lo, hi, st) ==
    CASE hi <= lo \/ st.broke \/ lo >= Len(st.possibleMoves) -> st
      [] hi = lo + 1 ->
            CHOOSE next \in {
                LET fresh == createDataObject(st.boardArray, st.possibleMoves).fresh
                    b2 == IF fresh THEN st.boardArray ELSE r.boardArray
                    p2 == IF fresh THEN st.possibleMoves ELSE r.possibleMoves
                    a2 == Max(st.alpha, r.value)
                IN  [st EXCEPT
                       !.value = Max(r.value, @),
                       !.alpha = a2,
                       !.boardArray = b2,
                       !.possibleMoves = p2,
                       !.calls = @ \o <<Call(st.boardArray, st.possibleMoves,
                                             st.possibleMoves[lo + 1], r, b2, p2)>> \o r.calls,
                       !.depth = Max(@, r.depth),
                       !.broke = cutOff(a2, st.beta)] :
                r \in {minimax(st.possibleMoves[lo + 1], FALSE, st.alpha, st.beta,
                               createDataObject(st.boardArray, st.possibleMoves))}} : TRUE
      [] OTHER ->
            CHOOSE next \in {maxLoop((lo + hi) \div 2, hi, s1) :
                             s1 \in {maxLoop(lo, (lo + hi) \div 2, st)}} : TRUE

\* for (move of possibleMoves) of the minimizing branch: the iterations at JS
\* positions lo .. hi - 1, in order
minLoop(lo, hi, st) ==
    CASE hi <= lo \/ st.broke \/ lo >= Len(st.possibleMoves) -> st
      [] hi = lo + 1 ->
            CHOOSE next \in {
                LET fresh == createDataObject(st.boardArray, st.possibleMoves).fresh
                    b2 == IF fresh THEN st.boardArray ELSE r.boardArray
                    p2 == IF fresh THEN st.possibleMoves ELSE r.possibleMoves
                    be2 == Min(st.beta, r.value)
                IN  [st EXCEPT
                       !.value = Min(r.value, @),
                       !.beta = be2,
                       !.boardArray = b2,
                       !.possibleMoves = p2,
                       !.calls = @ \o <<Call(st.boardArray, st.possibleMoves,
                                             st.possibleMoves[lo + 1], r, b2, p2)>> \o r.calls,
                       !.depth = Max(@, r.depth),
                       !.broke = cutOff(st.alpha, be2)] :
                r \in {minimax(st.possibleMoves[lo + 1], TRUE, st.alpha, st.beta,
                               createDataObject(st.boardArray, st.possibleMoves))}} : TRUE
      [] OTHER ->
            CHOOSE next \in {minLoop((lo + hi) \div 2, hi, s1) :
                             s1 \in {minLoop(lo, (lo + hi) \div 2, st)}} : TRUE

\* value: the returned number; boardArray, possibleMoves: data's arrays on return;
\* marker, nodeBoard, nodeMoves (history): the marker placed and data's arrays
\* after simulateMove
minimax(move, maximizingOpponent, alpha, beta, data) ==
    LET marker == IF maximizingOpponent THEN botMarker ELSE opponentMarker
        sim == simulateMove(move, marker, data.boardArray, data.possibleMoves)
        res == getResult(sim.boardArray)
        st == [value |-> IF maximizingOpponent THEN -Infinity ELSE Infinity,
               alpha |-> alpha, beta |-> beta,
               boardArray |-> sim.boardArray, possibleMoves |-> sim.possibleMoves,
               marker |-> marker, nodeBoard |-> sim.boardArray, nodeMoves |-> sim.possibleMoves,
               calls |-> <<>>, depth |-> 0, broke |-> FALSE]
    IN  CASE res # Undefined -> [st EXCEPT !.value = getLeafValue(res), !.depth = 1]
          [] res = Undefined /\ maximizingOpponent ->
                [maxLoop(0, Len(sim.possibleMoves), st) EXCEPT !.depth = @ + 1]
          [] OTHER ->
                [minLoop(0, Len(sim.possibleMoves), st) EXCEPT !.depth = @ + 1]

\* String(value), the property key under which movesValueMap stores a value
ToKey(value) ==
    IF value = -1 THEN "-1"
    ELSE IF value = 0 THEN "0"
    ELSE IF value = 1 THEN "1"
    ELSE IF value = Infinity THEN "Infinity"
    ELSE "-Infinity"

\* the UTF-16 code units of a key: '-' 45, '0' 48, '1' 49, 'I' 73, ...
CodeUnits(key) ==
    IF key = "-1" THEN <<45, 49>>
    ELSE IF key = "0" THEN <<48>>
    ELSE IF key = "1" THEN <<49>>
    ELSE IF key = "Infinity" THEN <<73, 110, 102, 105, 110, 105, 116, 121>>
    ELSE <<45, 73, 110, 102, 105, 110, 105, 116, 121>>

StrGreater(a, b) ==
    LET x == CodeUnits(a)
        y == CodeUnits(b)
        n == Min(Len(x), Len(y))
        diff == {k \in 1..n : x[k] # y[k]}
    IN  IF diff = {} THEN Len(x) > Len(y)
        ELSE LET d == CHOOSE k \in diff : \A m \in diff : k <= m IN x[d] > y[d]

\* prev < curr on two strings: comparison by code units, a proper prefix first
StrLess(a, b) ==
    LET x == CodeUnits(a)
        y == CodeUnits(b)
        n == Min(Len(x), Len(y))
        diff == {k \in 1..n : x[k] # y[k]}
    IN  IF diff = {} THEN Len(x) < Len(y)
        ELSE LET d == CHOOSE k \in diff : \A m \in diff : k <= m IN x[d] < y[d]

\* Object.keys: integer-like keys in ascending order, then the others as inserted
ObjectKeys(map) ==
    SelectSeq(<<"0", "1">>, LAMBDA key : key \in DOMAIN map.at)
        \o SelectSeq(map.order, LAMBDA key : key \notin {"0", "1"})

MapPut_keepFirst(map, value, move) ==
    LET key == ToKey(value)
    IN  [at    |-> [x \in (DOMAIN map.at) \cup {key} |->
                        IF x \in DOMAIN map.at THEN map.at[x] ELSE move],
         order |-> IF key \in DOMAIN map.at THEN map.order ELSE Append(map.order, key)]

\* movesValueMap[String(value)] = move
MapPut(map, value, move) ==
    LET key == ToKey(value)
    IN  [at    |-> [x \in (DOMAIN map.at) \cup {key} |->
                        IF x = key THEN move ELSE map.at[x]],
         order |-> IF key \in DOMAIN map.at THEN map.order ELSE Append(map.order, key)]

RECURSIVE ReduceMin(_, _, _)
\* keys.reduce((prev, curr) => prev < curr ? prev : curr), accumulator prev, from position k
ReduceMin(keys, k, prev) ==
    IF k > Len(keys) THEN prev
    ELSE ReduceMin(keys, k + 1, IF StrLess(prev, keys[k]) THEN prev ELSE keys[k])

RECURSIVE rootLoop(_, _, _)
\* for (move of possibleMoves) of computeOptimalMove: the iterations at JS
\* positions lo .. hi - 1, in order
rootLoop(lo, hi, st) ==
    CASE hi <= lo \/ lo >= Len(st.possibleMoves) -> st
      [] hi = lo + 1 ->
            CHOOSE next \in {
                LET move == st.possibleMoves[lo + 1]
                    fresh == createDataObject(st.boardArray, st.possibleMoves).fresh
                    b2 == IF fresh THEN st.boardArray ELSE r.boardArray
                    p2 == IF fresh THEN st.possibleMoves ELSE r.possibleMoves
                IN  [st EXCEPT
                       !.map = MapPut(@, r.value, move),
                       !.boardArray = b2,
                       !.possibleMoves = p2,
                       !.calls = @ \o <<Call(st.boardArray, st.possibleMoves, move, r, b2, p2)>>
                                   \o r.calls,
                       !.depth = Max(@, r.depth)] :
                r \in {minimax(st.possibleMoves[lo + 1], TRUE, -Infinity, Infinity,
                               createDataObject(st.boardArray, st.possibleMoves))}} : TRUE
      [] OTHER ->
            CHOOSE next \in {rootLoop((lo + hi) \div 2, hi, s1) :
                             s1 \in {rootLoop(lo, (lo + hi) \div 2, st)}} : TRUE

\* live: the array board.getBoardArray() returns, which is the live board itself.
\* threw: reduce of an empty key list raises a TypeError; boardArray: live afterwards
computeOptimalMove(live) ==
    LET possibleMoves == getAvailableIndices(live)
    IN  CHOOSE out \in {
            LET keys == ObjectKeys(done.map)
            IN  IF keys = <<>>
                THEN [threw |-> TRUE, move |-> -1, boardArray |-> done.boardArray,
                      calls |-> done.calls, depth |-> done.depth]
                ELSE [threw |-> FALSE,
                      move |-> done.map.at[ReduceMin(keys, 2, keys[1])],
                      boardArray |-> done.boardArray,
                      calls |-> done.calls, depth |-> done.depth] :
            done \in {rootLoop(0, Len(possibleMoves),
                               [map |-> [at |-> <<>>, order |-> <<>>],
                                boardArray |-> live, possibleMoves |-> possibleMoves,
                                calls |-> <<>>, depth |-> 0])}} : TRUE

----------------------------------------------------------------------------
(* events.  eMap is an object: a name that was never subscribed to is no   *)
(* key of it, DOMAIN eMap are its keys.  Callbacks are named by strings.   *)

\* if (!eMap[eName]) eMap[eName] = []; eMap[eName].push(callbackFn)
on(map, eName, callbackFn) ==
    [x \in (DOMAIN map) \cup {eName} |->
        IF x # eName THEN map[x]
        ELSE Append(IF eName \in DOMAIN map THEN map[eName] ELSE <<>>, callbackFn)]

\* if (!eMap[eName]) return; eMap[eName].splice(eMap[eName].indexOf(callbackFn), 1)
off(map, eName, callbackFn) ==
    IF eName \notin DOMAIN map THEN map
    ELSE [map EXCEPT ![eName] = Splice1(@, IndexOf(@, callbackFn))]

\* if (!eMap[eName]) return; eMap[eName].forEach(fn => fn(data)): the calls made, in order
emit(map, eName, data) ==
    IF eName \notin DOMAIN map THEN <<>>
    ELSE [k \in 1..Len(map[eName]) |-> [fn |-> map[eName][k], data |-> data]]

NoOff == [called |-> FALSE, eName |-> "", fn |-> "", before |-> <<>>, after |-> <<>>]
NoEmit == [called |-> FALSE, eName |-> "", received |-> <<>>]

----------------------------------------------------------------------------
(* board.fillSquare, gameUI.handleResult, gameCore.makeMove *)

fillSquare(bArr, index, string) == [bArr EXCEPT ![index] = string]

NoSearch == [called |-> FALSE, before |-> EmptyBoard, after |-> EmptyBoard, move |-> -1]

\* a player object is passed on as its name, the string "tie" as itself
Winner(res) ==
    IF res = player1.marker THEN player1.name
    ELSE IF res = player2.marker THEN player2.name
    ELSE res

resultText(winner) ==
    IF winner = "tie" THEN "It's a tie!"
    ELSE IF winner = player1.name THEN "HEHEHEHAW Player X wins!"
    ELSE "HEHEHEHAW Player O wins!"

\* s: the mutable state a click handler works on
handleResult(winner, s) ==
    [s EXCEPT !.listeners = unbindAll(s.listeners),
              !.restartNope = FALSE,
              !.resultDiv = resultText(winner),
              !.handled = Append(s.handled, winner)]

botReplies_wrongTurn(bot, p1Turn) == bot /\ p1Turn

\* if (useBot && !player1Turn)
botReplies(bot, p1Turn) == bot /\ ~p1Turn

RECURSIVE makeMove(_, _)
makeMove(index, s) ==
    LET marker == (IF s.player1Turn THEN player1 ELSE player2).marker
        s1 == [s EXCEPT !.listeners = unbindSquare(s.listeners, index),
                        !.boardArray = fillSquare(s.boardArray, index, marker),
                        !.fills = Append(s.fills,
                                         [index |-> index, string |-> marker,
                                          wasEmpty |-> s.boardArray[index] = ""])]
        res == getResult(s1.boardArray)
        s2 == IF res # Undefined THEN handleResult(Winner(res), s1) ELSE s1
        s3 == [s2 EXCEPT !.player1Turn = ~s2.player1Turn]
    IN  IF botReplies(useBot, s3.player1Turn)
        THEN LET c  == computeOptimalMove(s3.boardArray)
                 s4 == [s3 EXCEPT !.boardArray = c.boardArray,
                                  !.search = [called |-> TRUE, before |-> s3.boardArray,
                                              after |-> c.boardArray, move |-> c.move]]
             IN  IF c.threw THEN [s4 EXCEPT !.threw = TRUE] ELSE makeMove(c.move, s4)
        ELSE s3

----------------------------------------------------------------------------
(* The state machine.  An element carrying class "nope" is hidden and      *)
(* takes no click; a square takes a click while its listener is bound.     *)

Init ==
    /\ boardArray = EmptyBoard
    /\ listeners = [i \in Cells |-> TRUE]
    /\ player1Turn = TRUE
    /\ useBot = FALSE
    /\ startNope = FALSE
    /\ restartNope = TRUE
    /\ boardNope = TRUE
    /\ resultDiv = ""
    /\ handled = <<>>
    /\ fills = <<>>
    /\ search = NoSearch
    /\ threw = FALSE
    /\ restarted = FALSE
    /\ eMap = on(<<>>, "squareClick", "makeMove")
    /\ lastOff = NoOff
    /\ lastEmit = NoEmit

changeDisplay ==
    /\ startNope' = TRUE
    /\ boardNope' = FALSE

setPlayer ==
    /\ ~startNope
    /\ useBot' = FALSE
    /\ changeDisplay
    /\ UNCHANGED <<boardArray, listeners, player1Turn, restartNope, resultDiv,
                   handled, fills, search, threw, restarted>>
    /\ UNCHANGED eventVars

setBot ==
    /\ ~startNope
    /\ useBot' = TRUE
    /\ changeDisplay
    /\ UNCHANGED <<boardArray, listeners, player1Turn, restartNope, resultDiv,
                   handled, fills, search, threw, restarted>>
    /\ UNCHANGED eventVars

\* emitSquareClick -> events.emit("squareClick", index) -> makeMove(index)
squareClick(index) ==
    /\ ~boardNope
    /\ listeners[index]
    /\ emit(eMap, "squareClick", index) = <<[fn |-> "makeMove", data |-> index]>>
    /\ \E s \in {makeMove(index,
                    [boardArray |-> boardArray, listeners |-> listeners,
                     player1Turn |-> player1Turn, restartNope |-> restartNope,
                     resultDiv |-> resultDiv, handled |-> handled,
                     fills |-> <<>>, search |-> NoSearch, threw |-> FALSE])} :
           /\ boardArray' = s.boardArray
           /\ listeners' = s.listeners
           /\ player1Turn' = s.player1Turn
           /\ restartNope' = s.restartNope
           /\ resultDiv' = s.resultDiv
           /\ handled' = s.handled
           /\ fills' = s.fills
           /\ search' = s.search
           /\ threw' = s.threw
    /\ UNCHANGED <<useBot, startNope, boardNope, restarted>>
    /\ UNCHANGED eventVars

gameCoreReset_keep(p1Turn) == p1Turn

\* gameCore.reset: player1Turn = true
gameCoreReset(p1Turn) == TRUE

\* board.reset(); gameCore.reset(); resetDisplay()
restartGame ==
    /\ ~restartNope
    /\ boardArray' = EmptyBoard
    /\ listeners' = [i \in Cells |-> TRUE]
    /\ player1Turn' = gameCoreReset(player1Turn)
    /\ startNope' = FALSE
    /\ restartNope' = TRUE
    /\ boardNope' = TRUE
    /\ resultDiv' = ""
    /\ handled' = <<>>
    /\ fills' = <<>>
    /\ search' = NoSearch
    /\ threw' = FALSE
    /\ restarted' = TRUE
    /\ UNCHANGED useBot
    /\ UNCHANGED eventVars

Next ==
    \/ setPlayer
    \/ setBot
    \/ \E index \in Cells : squareClick(index)
    \/ restartGame

Spec == Init /\ [][Next]_vars

----------------------------------------------------------------------------
(* computeOptimalMove as a function of the board: every position of a game *)
(* in progress in which X has just moved, and one call on it.              *)

BotBoards ==
    {b \in [Cells -> {"", "X", "O"}] :
        /\ Cardinality({i \in Cells : b[i] = "X"}) = Cardinality({i \in Cells : b[i] = "O"}) + 1
        /\ getResult(b) = Undefined}

InitBot ==
    /\ boardArray \in BotBoards
    /\ listeners = [i \in Cells |-> boardArray[i] = ""]
    /\ player1Turn = FALSE
    /\ useBot = TRUE
    /\ startNope = TRUE
    /\ restartNope = TRUE
    /\ boardNope = FALSE
    /\ resultDiv = ""
    /\ handled = <<>>
    /\ fills = <<>>
    /\ search = NoSearch
    /\ threw = FALSE
    /\ restarted = FALSE
    /\ eMap = on(<<>>, "squareClick", "makeMove")
    /\ lastOff = NoOff
    /\ lastEmit = NoEmit

\* bot.computeOptimalMove() on the live board
botComputes ==
    /\ ~search.called
    /\ \E c \in {computeOptimalMove(boardArray)} :
           /\ search' = [called |-> TRUE, before |-> boardArray,
                         after |-> c.boardArray, move |-> c.move]
           /\ boardArray' = c.boardArray
           /\ threw' = c.threw
    /\ UNCHANGED <<listeners, player1Turn, useBot, startNope, restartNope, boardNope,
                   resultDiv, handled, fills, restarted>>
    /\ UNCHANGED eventVars

NextBot == botComputes

SpecBot == InitBot /\ [][NextBot]_vars

----------------------------------------------------------------------------
(* The events module on its own, as constructed (eMap = {}), driven by a   *)
(* client that subscribes, unsubscribes and emits.                         *)

EventNames == {"a", "b"}
Callbacks == {"f", "g", "h"}
Data == {0, 1}

\* the longest subscriber list the client builds
MaxSubs == 2

InitEvents ==
    /\ eMap = <<>>
    /\ lastOff = NoOff
    /\ lastEmit = NoEmit
    /\ boardArray = EmptyBoard
    /\ listeners = [i \in Cells |-> TRUE]
    /\ player1Turn = TRUE
    /\ useBot = FALSE
    /\ startNope = FALSE
    /\ restartNope = TRUE
    /\ boardNope = TRUE
    /\ resultDiv = ""
    /\ handled = <<>>
    /\ fills = <<>>
    /\ search = NoSearch
    /\ threw = FALSE
    /\ restarted = FALSE

gameVars == <<boardArray, listeners, player1Turn, useBot, startNope, restartNope,
              boardNope, resultDiv, handled, fills, search, threw, restarted>>

\* events.on(eName, callbackFn)
eventsOn(eName, callbackFn) ==
    /\ eName \in DOMAIN eMap => Len(eMap[eName]) < MaxSubs
    /\ eMap' = on(eMap, eName, callbackFn)
    /\ lastOff' = NoOff
    /\ lastEmit' = NoEmit
    /\ UNCHANGED gameVars

\* events.off(eName, callbackFn)
eventsOff(eName, callbackFn) ==
    /\ eMap' = off(eMap, eName, callbackFn)
    /\ lastOff' = [called |-> TRUE, eName |-> eName, fn |-> callbackFn,
                   before |-> IF eName \in DOMAIN eMap THEN eMap[eName] ELSE <<>>,
                   after |-> IF eName \in DOMAIN eMap' THEN eMap'[eName] ELSE <<>>]
    /\ lastEmit' = NoEmit
    /\ UNCHANGED gameVars

\* events.emit(eName, data)
eventsEmit(eName, data) ==
    /\ lastEmit' = [called |-> TRUE, eName |-> eName,
                    received |-> emit(eMap, eName, data)]
    /\ UNCHANGED <<eMap, lastOff>>
    /\ UNCHANGED gameVars

NextEvents ==
    \/ \E eName \in EventNames, callbackFn \in Callbacks : eventsOn(eName, callbackFn)
    \/ \E eName \in EventNames, callbackFn \in Callbacks : eventsOff(eName, callbackFn)
    \/ \E eName \in EventNames, data \in Data : eventsEmit(eName, data)

SpecEvents == InitEvents /\ [][NextEvents]_vars

----------------------------------------------------------------------------
(* Vocabulary of the properties, stated without the program's own tables   *)

Rows == {{3 * r + c : c \in 0..2} : r \in 0..2}
Columns == {{3 * r + c : r \in 0..2} : c \in 0..2}
Diagonals == {{0, 4, 8}, {2, 4, 6}}
Lines == Rows \cup Columns \cup Diagonals

HasLine(b, m) == \E L \in Lines : \A i \in L : b[i] = m
EmptyCells(b) == {i \in Cells : b[i] = ""}
Count(b, m) == Cardinality({i \in Cells : b[i] = m})
Over(b) == HasLine(b, "X") \/ HasLine(b, "O") \/ EmptyCells(b) = {}

----------------------------------------------------------------------------
\* C1: in bot mode no live board has a win line fully occupied by the human
\* marker X: the bot is never beaten.
BotNeverBeaten == useBot => ~HasLine(boardArray, "X")

\* a bot game played to its end: the board is full and the bot has moved four times
BotGamePlayedOut == useBot /\ EmptyCells(boardArray) = {} /\ Count(boardArray, "O") = 4

\* C2: between two restarts handleResult is called once if the live game has
\* reached a win or a tie and not at all otherwise, with the winning player or "tie".
HandleResultOnce ==
    /\ Len(handled) = IF Over(boardArray) THEN 1 ELSE 0
    /\ Len(handled) >= 1 =>
          handled[1] = IF HasLine(boardArray, "X") THEN "Player X"
                       ELSE IF HasLine(boardArray, "O") THEN "Player O"
                       ELSE "tie"

\* a finished two-player game in which the last free cells were never clicked
TwoPlayerWinReported ==
    ~useBot /\ HasLine(boardArray, "O") /\ EmptyCells(boardArray) # {} /\ Len(handled) = 1

\* C3: computeOptimalMove is only called on a live board with an empty cell and
\* no result yet, and no error escapes makeMove.
BotCalledOnlyInProgress ==
    /\ search.called => ~Over(search.before)
    /\ ~threw

\* the value the search gives to the bot's move i on board b
MoveValue(b, i) ==
    minimax(i, TRUE, -Infinity, Infinity, createDataObject(b, getAvailableIndices(b))).value

MinOf(S) == CHOOSE x \in S : \A y \in S : x <= y
MaxOf(S) == CHOOSE x \in S : \A y \in S : x >= y

\* C4: on a board with an empty cell computeOptimalMove returns an empty cell
\* whose minimax value is the minimum over all empty cells, and the keys "-1",
\* "0", "1" compare as strings the way the numbers compare.
OptimalMoveIsMinimal ==
    (search.called /\ EmptyCells(search.before) # {}) =>
        /\ search.move \in EmptyCells(search.before)
        /\ MoveValue(search.before, search.move)
              = MinOf({MoveValue(search.before, i) : i \in EmptyCells(search.before)})
        /\ \A u, v \in {-1, 0, 1} : StrLess(ToKey(u), ToKey(v)) <=> u < v

\* a call in which the empty cells have three different values, so the choice matters
OptimalMoveChosen ==
    /\ search.called
    /\ search.move \in EmptyCells(search.before)
    /\ {MoveValue(search.before, i) : i \in EmptyCells(search.before)} = {-1, 0, 1}

place(b, i, m) == [b EXCEPT ![i] = m]

RECURSIVE plainMinimax(_, _)
\* minimax without cut-offs on board b: the human (max) moves next if humanNext,
\* else the bot (min); leaves -1 bot win, +1 human win, 0 tie
plainMinimax(b, humanNext) ==
    IF HasLine(b, "O") THEN -1
    ELSE IF HasLine(b, "X") THEN 1
    ELSE IF EmptyCells(b) = {} THEN 0
    ELSE IF humanNext
    THEN MaxOf({plainMinimax(c, FALSE) : c \in {place(b, i, "X") : i \in EmptyCells(b)}})
    ELSE MinOf({plainMinimax(c, TRUE) : c \in {place(b, i, "O") : i \in EmptyCells(b)}})

\* C5: on every board the bot is asked to move on, and for every empty cell, the
\* search with cut-offs started with alpha = -Infinity, beta = +Infinity returns
\* the value of plain minimax.
PruningKeepsValue ==
    search.called =>
        \A i \in EmptyCells(search.before) :
            MoveValue(search.before, i) = plainMinimax(place(search.before, i, "O"), TRUE)

\* a search from the bot's first move, where cut-offs skip most of the tree
PrunedDeepSearch ==
    /\ search.called
    /\ Count(search.before, "X") = 1
    /\ Count(search.before, "O") = 0
    /\ search.move \in Cells

RECURSIVE SearchBoards(_, _)
\* the boards the search puts a mark on below the boards S, next mark m,
\* going on below a board exactly when getResult gives no result for it
SearchBoards(S, m) ==
    IF S = {} THEN {}
    ELSE LET level == UNION {{place(b, i, m) : i \in EmptyCells(b)} : b \in S}
         IN  level \cup SearchBoards({b \in level : getResult(b) = Undefined},
                                     IF m = botMarker THEN opponentMarker ELSE botMarker)

ResultAsSpecified(b) ==
    /\ \A m \in {"X", "O"} : getResult(b) = m <=> HasLine(b, m)
    /\ getResult(b) = "tie" <=> (~HasLine(b, "X") /\ ~HasLine(b, "O") /\ EmptyCells(b) = {})
    /\ getResult(b) = Undefined <=> (~HasLine(b, "X") /\ ~HasLine(b, "O") /\ EmptyCells(b) # {})

\* C6: on the live board and on every board inside the search, getResult returns
\* a marker iff one of the 8 lines holds that marker three times, "tie" iff no
\* line is won and no cell is empty, and no result otherwise.
GetResultCorrect ==
    /\ ResultAsSpecified(boardArray)
    /\ search.called =>
          \A b \in SearchBoards({search.before}, botMarker) : ResultAsSpecified(b)

\* a search that meets a win on the anti-diagonal, a win of either side and a tie
GetResultAllOutcomes ==
    /\ search.called
    /\ \E b \in SearchBoards({search.before}, botMarker) :
          b[2] = "O" /\ b[4] = "O" /\ b[6] = "O" /\ getResult(b) = "O"
    /\ \E b \in SearchBoards({search.before}, botMarker) : getResult(b) = "X"
    /\ \E b \in SearchBoards({search.before}, botMarker) : getResult(b) = "tie"

\* C7: a call of computeOptimalMove leaves the live board as it was.  (A write
\* to the live board during the search would put a mark on a cell that was
\* empty, and no write of the search empties a cell, so it would still show
\* when the call returns.)
SearchKeepsLiveBoard == search.called => search.after = search.before

\* a call that simulated moves on at least five empty cells and returned one
SearchRanOnLiveBoard ==
    /\ search.called
    /\ Cardinality(EmptyCells(search.before)) >= 5
    /\ search.move \in EmptyCells(search.before)
    /\ search.after = search.before

\* C8: the live board always has as many X as O, or one X more.
MarkerBalance == Count(boardArray, "X") - Count(boardArray, "O") \in {0, 1}

\* a game after a restart in which O has moved as often as X
BalancedAfterRestart ==
    restarted /\ Count(boardArray, "X") = 2 /\ Count(boardArray, "O") = 2

XThreats(b) ==
    {i \in EmptyCells(b) : \E L \in Lines : i \in L /\ \A j \in L \ {i} : b[j] = "X"}
OWins(b) ==
    {i \in EmptyCells(b) : \E L \in Lines : i \in L /\ \A j \in L \ {i} : b[j] = "O"}

BlockBoard == [i \in Cells |-> IF i \in {0, 1} THEN "X" ELSE IF i = 4 THEN "O" ELSE ""]

\* C9: when the bot is to move, X has two marks and an empty third cell on a
\* line and no cell completes an O line, computeOptimalMove returns that empty
\* cell; on X,X,_,_,O,_,_,_,_ it returns 2.
ForcedBlock ==
    (useBot /\ search.called /\ XThreats(search.before) # {} /\ OWins(search.before) = {}) =>
        /\ XThreats(search.before) = {search.move}
        /\ search.before = BlockBoard => search.move = 2

\* the bot was asked to move on X,X,_,_,O,_,_,_,_
BlockBoardPlayed == useBot /\ search.called /\ search.before = BlockBoard /\ search.move = 2

\* C10: every fillSquare on the live board targets a cell that is empty then.
FillsOnlyEmpty == \A k \in 1..Len(fills) : fills[k].wasEmpty

\* a click and the bot's reply to it, two fills in one handler
ClickAndReplyFilled ==
    useBot /\ Len(fills) = 2 /\ fills[1].wasEmpty /\ fills[2].wasEmpty

\* C11: restartGame (the one step that hides the restart button again) leaves
\* all 9 cells empty, player 1 to move and a click listener on every square,
\* whatever the game before it was.
RestartResetsGame ==
    [][(~restartNope /\ restartNope') =>
          /\ boardArray' = EmptyBoard
          /\ player1Turn'
          /\ \A i \in Cells : listeners'[i]]_vars

\* the start screen after a restart that followed a bot game
RestartedAfterBotGame ==
    /\ restarted /\ useBot /\ ~startNope
    /\ boardArray = EmptyBoard /\ player1Turn /\ \A i \in Cells : listeners[i]

\* the live board between the click's own mark and the bot's reply
BoardAfterClick ==
    IF Len(fills) >= 2 THEN [boardArray EXCEPT ![fills[2].index] = ""] ELSE boardArray

\* C12: in bot mode a click that leaves the game in progress is answered in the
\* same handler by exactly one O of the bot, a click is only accepted on player
\* 1's turn, and so the click places X and the bot O.
BotAnswersEachClick ==
    useBot =>
        /\ (~boardNope /\ \E i \in Cells : listeners[i]) => player1Turn
        /\ fills # <<>> =>
              /\ fills[1].string = "X"
              /\ Len(fills) = IF Over(BoardAfterClick) THEN 1 ELSE 2
              /\ Len(fills) = 2 => fills[2].string = "O" /\ fills[2].index = search.move

\* the bot's second reply in a game still in progress
BotAnsweredSecondClick ==
    /\ useBot /\ Len(fills) = 2 /\ fills[2].string = "O"
    /\ Count(boardArray, "O") = 2 /\ ~Over(boardArray) /\ player1Turn

\* the minimax calls of the last computeOptimalMove call, as their callers saw them
SearchCalls ==
    LET calls == computeOptimalMove(search.before).calls
    IN  {calls[k] : k \in 1..Len(calls)}

\* C13: the board of a minimax call equals its caller's board except at the
\* moved cell, the caller's board and possibleMoves are the same after the call
\* as before it, and the cells of the sibling moves are still empty on the
\* call's board.
CallsKeepCallerArrays ==
    search.called =>
        \A c \in SearchCalls :
            /\ \A i \in Cells \ {c.move} : c.nodeBoard[i] = c.parentBoard[i]
            /\ c.nodeBoard[c.move] = c.marker
            /\ c.parentBoardAfter = c.parentBoard
            /\ c.parentMovesAfter = c.parentMoves
            /\ \A k \in 1..Len(c.parentMoves) :
                  c.parentMoves[k] # c.move => c.nodeBoard[c.parentMoves[k]] = ""

\* a search with a call three marks below the live board that has siblings
NestedCallsMade ==
    /\ search.called
    /\ \E c \in SearchCalls :
          /\ Cardinality(EmptyCells(c.parentBoard)) = Cardinality(EmptyCells(search.before)) - 2
          /\ Len(c.parentMoves) >= 3
          /\ c.parentBoardAfter = c.parentBoard

\* C14: the move of every minimax call is in the possibleMoves it is handed and
\* its cell is empty there; after simulateMove possibleMoves is the ascending
\* list of the empty cells of the call's board.
CallsAreLegalMoves ==
    search.called =>
        \A c \in SearchCalls :
            /\ \E k \in 1..Len(c.parentMoves) : c.parentMoves[k] = c.move
            /\ c.parentBoard[c.move] = ""
            /\ Len(c.nodeMoves) = Cardinality(EmptyCells(c.nodeBoard))
            /\ \A k \in 1..Len(c.nodeMoves) : c.nodeMoves[k] \in EmptyCells(c.nodeBoard)
            /\ \A k \in 1..(Len(c.nodeMoves) - 1) : c.nodeMoves[k] < c.nodeMoves[k + 1]

\* a search on a board with cell 0 empty, with a call that leaves several cells empty
CallWithMovesLeft ==
    /\ search.called
    /\ search.before[0] = ""
    /\ \E c \in SearchCalls : Len(c.nodeMoves) >= 4 /\ c.nodeMoves[1] = 0

\* C15: every minimax call has one move fewer left than its caller, the calls
\* nest no deeper than the live board has empty cells, and every call returns
\* -1, 0 or 1.
SearchIsBounded ==
    search.called =>
        /\ \A c \in SearchCalls :
              /\ Len(c.nodeMoves) = Len(c.parentMoves) - 1
              /\ c.value \in {-1, 0, 1}
        /\ computeOptimalMove(search.before).depth <= Cardinality(EmptyCells(search.before))

\* a search of the bot's first move that went down to a full board
SearchReachedFullBoard ==
    /\ search.called
    /\ Cardinality(EmptyCells(search.before)) = 8
    /\ computeOptimalMove(search.before).depth = 8
    /\ search.move \in Cells

\* C16: once getResult gives a result for the live board, a step either leaves
\* all 9 cells as they are or is restartGame emptying them; and inside a click
\* handler no mark follows a mark that gave a result, so the bot places no mark
\* after the end of the game.
NoMarkAfterResult ==
    [][/\ getResult(boardArray) # Undefined =>
              \/ boardArray' = boardArray
              \/ ~restartNope /\ restartNope' /\ boardArray' = EmptyBoard
       /\ Len(fills') >= 2 => getResult(BoardAfterClick') = Undefined]_vars

\* a bot game the bot has won with cells still empty, and every square unbound
BotWonWithCellsLeft ==
    /\ useBot
    /\ getResult(boardArray) = "O"
    /\ EmptyCells(boardArray) # {}
    /\ \A i \in Cells : ~listeners[i]
    /\ Len(fills) = 2

\* the least value the search gives to an empty cell of b
LeastValue(b) == MinOf({MoveValue(b, j) : j \in EmptyCells(b)})

\* the empty cells of b to which the search gives the least value
MinimalCells(b) ==
    UNION {{i \in EmptyCells(b) : MoveValue(b, i) = least} : least \in {LeastValue(b)}}

\* C17: computeOptimalMove returns the largest index among the empty cells of
\* least minimax value, which makes the returned cell a function of the board.
LargestMinimalCell ==
    search.called => search.move = MaxOf(MinimalCells(search.before))

\* a call on a board where several cells share the least value
SeveralMinimalCells ==
    /\ search.called
    /\ \E least \in {MinimalCells(search.before)} :
          /\ Cardinality(least) >= 3
          /\ search.move = MaxOf(least)
          /\ search.move # MinOf(least)

\* C18: in bot mode, when the bot is asked to move and some empty cell completes
\* a line of three O, the returned cell completes such a line.
BotTakesImmediateWin ==
    (useBot /\ search.called /\ OWins(search.before) # {}) =>
        search.move \in OWins(search.before)

\* C18, amended: in bot mode, when the bot is asked to move and some empty cell
\* completes a line of three O, the returned cell has minimax value -1: the bot
\* wins after it against every play of the human, on that move or on a later one.
BotKeepsForcedWin ==
    (useBot /\ search.called /\ OWins(search.before) # {}) =>
        /\ search.move \in EmptyCells(search.before)
        /\ plainMinimax(place(search.before, search.move, "O"), TRUE) = -1

\* the bot could complete a line and returned another cell, of value -1
BotDelayedWin ==
    /\ useBot
    /\ search.called
    /\ OWins(search.before) # {}
    /\ search.move \in EmptyCells(search.before) \ OWins(search.before)
    /\ plainMinimax(place(search.before, search.move, "O"), TRUE) = -1

\* the 8 rotations and reflections of the grid, as maps of cell indices:
\* quarter turns of the identity and of the mirror image
QuarterTurn == [i \in Cells |-> 3 * (i % 3) + (2 - (i \div 3))]
Mirror == [i \in Cells |-> 3 * (i \div 3) + (2 - (i % 3))]
Identity == [i \in Cells |-> i]
After(f, g) == [i \in Cells |-> f[g[i]]]
Turns(f) ==
    {f, After(QuarterTurn, f), After(QuarterTurn, After(QuarterTurn, f)),
     After(QuarterTurn, After(QuarterTurn, After(QuarterTurn, f)))}
Symmetries == Turns(Identity) \cup Turns(Mirror)

\* board b seen through p: cell i shows what cell p[i] of b holds
Transform(b, p) == [i \in Cells |-> b[p[i]]]

\* C19: for each of the 8 rotations and reflections of a board the bot is to
\* move on, the least minimax value over the empty cells of the transformed
\* board is that of the board itself, and the cell computeOptimalMove returns on
\* the transformed board has that value.
SymmetricBoardsSameValue ==
    search.called =>
        \A v \in {LeastValue(search.before)} :
            \A p \in Symmetries :
                \A t \in {Transform(search.before, p)} :
                    /\ LeastValue(t) = v
                    /\ MoveValue(t, computeOptimalMove(t).move) = v

\* a call on a board with 8 different images, on one of which the returned cell
\* is not the image of the cell returned on the board itself
SymmetricMoveDiffers ==
    /\ search.called
    /\ Cardinality({Transform(search.before, p) : p \in Symmetries}) = 8
    /\ \E p \in Symmetries :
          p[computeOptimalMove(Transform(search.before, p)).move] # search.move

\* seq without its first occurrence of x; seq itself when x does not occur
WithoutFirst(seq, x) ==
    IF \E k \in 1..Len(seq) : seq[k] = x
    THEN LET k == CHOOSE j \in 1..Len(seq) : seq[j] = x /\ \A m \in 1..(j - 1) : seq[m] # x
         IN  SubSeq(seq, 1, k - 1) \o SubSeq(seq, k + 1, Len(seq))
    ELSE seq

\* C20: events.off(eName, fn) removes fn, once, from the subscriber list of
\* eName and leaves the list as it is when fn is not subscribed; an emit that
\* follows it still calls every other subscriber the list had.
OffRemovesOnlyFn ==
    /\ lastOff.called => lastOff.after = WithoutFirst(lastOff.before, lastOff.fn)
    /\ (lastOff.called /\ lastEmit.called /\ lastEmit.eName = lastOff.eName) =>
          \A k \in 1..Len(lastOff.before) :
              lastOff.before[k] # lastOff.fn =>
                  \E j \in 1..Len(lastEmit.received) :
                      lastEmit.received[j].fn = lastOff.before[k]
====
